---- MODULE Spec2Model ----
(***************************************************************************)
(* Certificate issuance, revocation and public verification of the         *)
(* digital-achievement-ledger backend, over a PostgreSQL store.            *)
(*                                                                         *)
(* The store is modelled with READ COMMITTED transactions: rows written    *)
(* inside an open transaction live in tx[p] and are invisible to every     *)
(* other request until the commit; an insert whose unique key equals a key *)
(* written by another open transaction waits for that transaction to end.  *)
(* Every database call may also fail because the database is unavailable.  *)
(*                                                                         *)
(* Columns not read by any modelled decision (notes, issued_by,            *)
(* created_at) are left out of the certificate row.                        *)
(***************************************************************************)
EXTENDS Integers, Sequences, FiniteSets, TLC

(* ------------------------------ bounds -------------------------------- *)

\* concurrent requests (one goroutine per HTTP request)
NumProcs == 2
\* issuance requests that reach the numbering allocator
MaxIssue == 2
\* the same, where issuance runs beside revocation, verification and download
MaxIssueMixed == 1

\* the longest competition name, organizer, category or level rendered
MaxNameLen == 40
\* the number of photos UploadFile stores in one run
MaxUploads == 2
Procs == 1..NumProcs

\* calendar years the clock passes through
Years == {2024, 2025}
StartYear == CHOOSE y \in Years : \A z \in Years : y <= z

\* outcomes of crypto/rand hex tokens, small enough to collide
Tokens == {"tokA", "tokB", "tokC"}

\* request inputs
Req(student, achs, until) ==
    [student_id |-> student, achievement_ids |-> achs, valid_until |-> until]
Requests ==
    { Req("s1", <<"a1">>, ""),                \* plain
      Req("s1", <<"a1", "a2">>, "2020-12-31"),  \* two achievements, expiry date
      Req("s1", <<"a2", "a2">>, ""),          \* the same achievement twice
      Req("s1", <<"a1", "a9">>, ""),          \* second achievement not stored
      Req("s9", <<"a1">>, ""),                \* student not stored
      Req("s1", <<"a1">>, "31-12-2020"),      \* malformed date
      Req("bad", <<"a1">>, ""),               \* malformed student id
      Req("s1", <<"a1", "bad">>, ""),         \* malformed achievement id
      Req("", <<"a1">>, ""),                  \* no student id
      Req("s1", <<>>, "") }                   \* no achievement
\* certificate ids a caller may name: stored ones, one never stored, one malformed
UnknownID == 0 - 1
MalformedID == 0 - 2

(* --------------------------- pure functions --------------------------- *)

\* uuid.Parse on the identifiers used here
IsUUID(s) == s \in {"s1", "s2", "s3", "s4", "s9", "a1", "a2", "a3", "a9"}

\* time.Parse("2006-01-02", s)
IsISODate(s) == s = "2020-12-31"

RECURSIVE PadLeft(_, _)
\* fmt's %04d on a non-negative integer: zeros on the left up to the width
PadLeft(s, w) == IF Len(s) >= w THEN s ELSE PadLeft("0" \o s, w)

GenerateCertificateNumberBad(year, increment) ==
    "421.2/SKP/" \o ToString(year) \o "/" \o ToString(increment)

\* utils.GenerateCertificateNumber; year is its own time.Now().Year()
GenerateCertificateNumber(year, increment) ==
    "421.2/SKP/" \o ToString(year) \o "/" \o PadLeft(ToString(increment), 4)

(* ------------------------------ schema -------------------------------- *)

\* columns of table certificates
CertificateColumns ==
    { "id", "student_id", "certificate_number", "issued_at", "issued_by",
      "valid_until", "qr_token", "pdf_url", "status", "notes", "created_at" }

\* SET clauses of the two single-row updates
RevokeSetColumns == {"status", "updated_at"}
UpdatePDFURLSetColumns == {"pdf_url"}

(* ------------------------------- state -------------------------------- *)

VARIABLES
    clock,                    \* time.Now().Year()
    students,                 \* table students: set of ids
    achievements,             \* table achievements: id -> [student_id, year]
    certificates,             \* table certificates: id -> row (committed)
    certificate_achievements, \* join table: set of <<certificate_id, achievement_id>>
    tx,                       \* per request: rows written by its open transaction
    proc,                     \* per request: position, locals, and the outcome of
                              \* its last finished call (pc = "idle")
    pdfTasks,                 \* detached generateAndUploadPDF goroutines
    issued,                   \* number of issuance calls that reached the allocator
    repoCalls,                \* history: certificate id -> repository Create call
    overlapped,               \* history: two issuance calls overlapped in time
    straddled,                \* history: an issuance read two different years
    objects,                  \* object storage: the names of the stored objects
    student_cols,             \* table students: id -> [nisn, full_name, photo_url]
    call,                     \* a call of a function of the program: input, result
    uploads                   \* number of objects UploadFile has stored

vars == << clock, students, achievements, certificates, certificate_achievements,
           tx, proc, pdfTasks, issued, repoCalls, overlapped, straddled,
           objects, student_cols, call, uploads >>

None == {}
Some(x) == {x}

NoResp == [is_valid |-> FALSE, certificate |-> None, student |-> None,
           achievements |-> <<>>, message |-> ""]
NoReq == [student_id |-> "", achievement_ids |-> <<>>, valid_until |-> ""]
Idle == [pc |-> "idle", op |-> "", req |-> NoReq, id |-> UnknownID, key |-> "",
         year |-> 0,
         count |-> 0, number |-> "", token |-> "", k |-> 0, cert |-> None,
         student |-> None, file_url |-> "",
         err |-> "", status |-> 0, resp |-> NoResp]
NoTx == [cert |-> None, joins |-> {}]

\* a row of table students as first stored: no photo
StudentRow(nisn, name) == [nisn |-> nisn, full_name |-> name, photo_url |-> ""]

\* no function call under way
NoCall == [fn |-> "", in |-> << >>, out |-> << >>, done |-> FALSE]

\* rows present when the server starts: none, or one certificate issued earlier
SeedRow(status) ==
    [id |-> 0, student_id |-> "s1",
     certificate_number |-> GenerateCertificateNumber(StartYear, 1),
     issued_at |-> StartYear, valid_until |-> "", qr_token |-> "tokA",
     pdf_url |-> "", status |-> status]

InitStore ==
    /\ clock = StartYear
    /\ students = {"s1", "s2"}
    /\ achievements = ("a1" :> [student_id |-> "s1", year |-> 2023])
                   @@ ("a2" :> [student_id |-> "s1", year |-> 2024])
                   @@ ("a3" :> [student_id |-> "s2", year |-> 2023])
    /\ \E seed \in {"none", "active", "revoked"} :
          IF seed = "none"
          THEN /\ certificates = << >>
               /\ certificate_achievements = {}
               /\ repoCalls = << >>
          ELSE /\ certificates = (0 :> SeedRow(seed))
               /\ certificate_achievements = { <<0, "a1">> }
               /\ repoCalls = (0 :> [achievement_ids |-> <<"a1">>, returned |-> "nil"])
    /\ tx = [p \in Procs |-> NoTx]
    /\ proc = [p \in Procs |-> Idle]
    /\ pdfTasks = {}
    /\ issued = 0
    /\ overlapped = FALSE
    /\ straddled = FALSE
    /\ objects = {}
    /\ uploads = 0
    /\ student_cols = ("s1" :> StudentRow("n1", "Ani")) @@ ("s2" :> StudentRow("n2", "Budi"))

\* the state after construction: the store as found, no request in flight
Init ==
    /\ InitStore
    /\ call = NoCall

(* ------------------------------ errors -------------------------------- *)

ErrCertificateNotFound == "sertifikat tidak ditemukan"
ErrAlreadyRevoked == "sertifikat sudah dicabut sebelumnya"
ErrInvalidID == "ID tidak valid"
ErrStudentNotFound == "siswa tidak ditemukan"
ErrDBUnavailable == "db: unavailable"
ErrUniqueID == "pq: unique_violation certificates_pkey"
ErrUniqueNumber == "pq: unique_violation certificates_certificate_number_key"
ErrUniqueToken == "pq: unique_violation certificates_qr_token_key"
ErrUniqueJoin == "pq: unique_violation certificate_achievements_pkey"
ErrForeignKey == "pq: foreign_key_violation"
ErrUndefinedColumn == "pq: undefined_column"
ErrAchievementNotFound == "prestasi tidak ditemukan"
ErrValidUntil == "format valid_until tidak valid"
ErrRand == "crypto/rand: read failed"
ErrRender == "pdf: render failed"

\* errors produced by request validation in service Create
ValidationErrors ==
    { "student_id tidak valid", "minimal 1 prestasi harus dipilih",
      "achievement_id tidak valid", ErrValidUntil }

(* ------------------------------ handlers ------------------------------ *)

\* CertificateHandler.Create: the checks made before the service is called
HandlerCreatePrecheck(req) ==
    IF req.student_id = "" \/ Len(req.achievement_ids) = 0
    THEN "Validasi gagal" ELSE ""

\* CertificateHandler.Create: HTTP status for the service's error
HandlerCreateStatus(err) ==
    IF err = "" THEN 201
    ELSE IF err = ErrStudentNotFound THEN 404
    ELSE 400

\* CertificateHandler.Revoke: HTTP status for the service's error
HandlerRevokeStatus(err) ==
    IF err = "" THEN 200
    ELSE IF err = ErrCertificateNotFound THEN 404
    ELSE 400

\* CertificateHandler.Verify: HTTP status for the service's answer
HandlerVerifyStatus(err, isValid) ==
    IF err # "" THEN 500
    ELSE IF ~isValid THEN 422
    ELSE 200

\* CertificateHandler.Download: HTTP status for the service's error
HandlerDownloadStatus(err) ==
    IF err = "" THEN 200
    ELSE IF err = ErrCertificateNotFound THEN 404
    ELSE 500

\* StudentHandler.Delete: HTTP status for the service's error
HandlerStudentDeleteStatus(err) ==
    IF err = "" THEN 200
    ELSE IF err = ErrStudentNotFound THEN 404
    ELSE 500

\* AchievementHandler.Delete: HTTP status for the service's error
HandlerAchievementDeleteStatus(err) ==
    IF err = "" THEN 200
    ELSE IF err = ErrAchievementNotFound THEN 404
    ELSE 500

(* ---------------------------- repository ------------------------------ *)

\* certificateRepository.CountByYear
CountByYear(year) ==
    Cardinality({ id \in DOMAIN certificates : certificates[id].issued_at = year })

\* certificateRepository.FindByID: the row, or none
FindByID(id) ==
    IF id \in DOMAIN certificates THEN Some(certificates[id]) ELSE None

\* SELECT c.*, s.full_name as student_name, s.nisn as student_nisn FROM
\* certificates c LEFT JOIN students s: the row with the join fields of
\* model.Certificate filled from the owning student
WithStudent(cols, row) ==
    IF row.student_id \in DOMAIN cols
    THEN [student_name |-> cols[row.student_id].full_name,
          student_nisn |-> cols[row.student_id].nisn] @@ row
    ELSE [student_name |-> "", student_nisn |-> ""] @@ row

\* the query of FindByQRToken on the tables given
FindByQRTokenIn(certs, cols, token) ==
    { WithStudent(cols, certs[id]) : id \in { i \in DOMAIN certs :
                                                 certs[i].qr_token = token } }

\* certificateRepository.FindByQRToken: the row, or none
FindByQRToken(token) ==
    FindByQRTokenIn(certificates, student_cols, token)

\* achievement ids joined to a certificate
JoinedAchievements(id) ==
    { pair[2] : pair \in { q \in certificate_achievements : q[1] = id } }

\* ORDER BY a.year DESC: every order of S with non-increasing years
OrderedByYearDesc(S) ==
    { f \in [1..Cardinality(S) -> S] :
        /\ \A i, j \in 1..Cardinality(S) : i # j => f[i] # f[j]
        /\ \A i, j \in 1..Cardinality(S) :
              i < j => achievements[f[i]].year >= achievements[f[j]].year }

\* an insert waits while another open transaction holds the same unique key
WaitsForKey(p, row) ==
    \E q \in Procs \ {p} : \E other \in tx[q].cert :
        \/ other.certificate_number = row.certificate_number
        \/ other.qr_token = row.qr_token

InsertCertificateErrorNoTokenKey(row) ==
    IF row.id \in DOMAIN certificates THEN ErrUniqueID
    ELSE IF \E id \in DOMAIN certificates :
            certificates[id].certificate_number = row.certificate_number
    THEN ErrUniqueNumber
    ELSE IF row.student_id \notin students THEN ErrForeignKey
    ELSE ""

InsertCertificateErrorNoNumberKey(row) ==
    IF row.id \in DOMAIN certificates THEN ErrUniqueID
    ELSE IF \E id \in DOMAIN certificates : certificates[id].qr_token = row.qr_token
    THEN ErrUniqueToken
    ELSE IF row.student_id \notin students THEN ErrForeignKey
    ELSE ""

\* INSERT INTO certificates under the table's constraints: the error, or ""
InsertCertificateError(row) ==
    IF row.id \in DOMAIN certificates THEN ErrUniqueID
    ELSE IF \E id \in DOMAIN certificates :
            certificates[id].certificate_number = row.certificate_number
    THEN ErrUniqueNumber
    ELSE IF \E id \in DOMAIN certificates : certificates[id].qr_token = row.qr_token
    THEN ErrUniqueToken
    ELSE IF row.student_id \notin students THEN ErrForeignKey
    ELSE ""

\* INSERT INTO certificate_achievements inside transaction t: the error, or ""
InsertJoinError(t, id, ach) ==
    IF <<id, ach>> \in t.joins THEN ErrUniqueJoin
    ELSE IF ach \notin DOMAIN achievements THEN ErrForeignKey
    ELSE ""

\* UPDATE certificates SET <cols> WHERE id: fails on a column the table lacks
UpdateError(cols) ==
    IF cols \subseteq CertificateColumns THEN "" ELSE ErrUndefinedColumn

RepoRevokeFlip(id) ==
    [err |-> "",
     certificates |->
         [i \in DOMAIN certificates |->
             IF i = id
             THEN [certificates[i] EXCEPT
                     !.status = IF @ = "active" THEN "revoked" ELSE "active"]
             ELSE certificates[i]]]

\* certificateRepository.Revoke: [err, certificates afterwards]
RepoRevoke(id) ==
    IF UpdateError(RevokeSetColumns) # ""
    THEN [err |-> UpdateError(RevokeSetColumns), certificates |-> certificates]
    ELSE [err |-> "",
          certificates |->
              [i \in DOMAIN certificates |->
                  IF i = id THEN [certificates[i] EXCEPT !.status = "revoked"]
                  ELSE certificates[i]]]

\* certificateRepository.UpdatePDFURL: [err, certificates afterwards]
RepoUpdatePDFURL(id, url) ==
    IF UpdateError(UpdatePDFURLSetColumns) # ""
    THEN [err |-> UpdateError(UpdatePDFURLSetColumns), certificates |-> certificates]
    ELSE [err |-> "",
          certificates |->
              [i \in DOMAIN certificates |->
                  IF i = id THEN [certificates[i] EXCEPT !.pdf_url = url]
                  ELSE certificates[i]]]

(* ------------------------------ service ------------------------------- *)

\* certificateService.Create, the checks before the allocator: the error, or ""
ServiceCreateValidate(req) ==
    IF ~IsUUID(req.student_id) THEN "student_id tidak valid"
    ELSE IF Len(req.achievement_ids) = 0 THEN "minimal 1 prestasi harus dipilih"
    ELSE IF \E i \in 1..Len(req.achievement_ids) : ~IsUUID(req.achievement_ids[i])
    THEN "achievement_id tidak valid"
    ELSE ""

\* the outcome of a finished call: the service's error ("" for nil), the HTTP
\* status the handler answers with, the certificate id, the service's answer
Res(op, err, status, id, resp) ==
    [Idle EXCEPT !.op = op, !.err = err, !.status = status, !.id = id,
                 !.resp = resp]

\* the call returns: the request ends and keeps its outcome
Finish(p, r) ==
    proc' = [proc EXCEPT ![p] = r]

InCreate(p) ==
    proc[p].pc \in {"create_number", "create_insert", "create_join",
                    "create_commit", "create_detail"}

(* ------------------------------ actions ------------------------------- *)

\* the calendar year advances
Tick ==
    /\ clock + 1 \in Years
    /\ clock' = clock + 1
    /\ UNCHANGED << students, achievements, certificates, certificate_achievements,
                    tx, proc, pdfTasks, issued, repoCalls, overlapped,
                    straddled >>
    /\ UNCHANGED << objects, student_cols, call, uploads >>

\* POST /certificates up to the allocator: handler checks, service validation,
\* year := time.Now().Year(), count := CountByYear(year)
CreateBegin(p, req) ==
    /\ proc[p].pc = "idle"
    /\ LET pre == HandlerCreatePrecheck(req)
           bad == ServiceCreateValidate(req)
       IN  IF pre # ""
           THEN /\ Finish(p, Res("create", pre, 400, UnknownID, NoResp))
                /\ UNCHANGED << issued, overlapped >>
           ELSE IF bad # ""
           THEN /\ Finish(p, Res("create", bad, HandlerCreateStatus(bad),
                                 UnknownID, NoResp))
                /\ UNCHANGED << issued, overlapped >>
           ELSE /\ issued < MaxIssue
                /\ issued' = issued + 1
                /\ overlapped' = (overlapped \/ \E q \in Procs \ {p} : InCreate(q))
                /\ \E fault \in BOOLEAN :
                      IF fault
                      THEN Finish(p, Res("create", ErrDBUnavailable,
                                         HandlerCreateStatus(ErrDBUnavailable),
                                         UnknownID, NoResp))
                      ELSE /\ proc' = [proc EXCEPT ![p] =
                                          [Idle EXCEPT !.pc = "create_number", !.op = "create",
                                                       !.req = req,
                                                       !.id = issued + 1,
                                                       !.year = clock,
                                                       !.count = CountByYear(clock)]]
    /\ UNCHANGED << clock, students, achievements, certificates,
                    certificate_achievements, tx, pdfTasks, repoCalls, straddled >>
    /\ UNCHANGED << objects, student_cols, call, uploads >>

\* certNumber := GenerateCertificateNumber(count + 1); qrToken := GenerateQRToken()
CreateNumber(p) ==
    /\ proc[p].pc = "create_number"
    /\ straddled' = (straddled \/ clock # proc[p].year)
    /\ \E token \in Tokens \cup {""} :
          IF token = ""
          THEN Finish(p, Res("create", ErrRand, HandlerCreateStatus(ErrRand),
                             UnknownID, NoResp))
          ELSE /\ proc' = [proc EXCEPT
                             ![p].pc = "create_insert",
                             ![p].number =
                                 GenerateCertificateNumber(clock, proc[p].count + 1),
                             ![p].token = token]
    /\ UNCHANGED << clock, students, achievements, certificates,
                    certificate_achievements, tx, pdfTasks, issued, repoCalls,
                    overlapped >>
    /\ UNCHANGED << objects, student_cols, call, uploads >>

\* the row service Create builds: id := uuid.New(), IssuedAt := time.Now()
NewCertificate(p) ==
    [id |-> proc[p].id, student_id |-> proc[p].req.student_id,
     certificate_number |-> proc[p].number, issued_at |-> clock,
     valid_until |-> proc[p].req.valid_until, qr_token |-> proc[p].token,
     pdf_url |-> "", status |-> "active"]

\* the rows a commit of transaction t adds to table certificates
CommitCertificates(t) ==
    [id \in DOMAIN certificates \cup { r.id : r \in t.cert } |->
        IF id \in DOMAIN certificates THEN certificates[id]
        ELSE CHOOSE r \in t.cert : r.id = id]

AfterRollbackAutocommit(t) ==
    [certificates |-> CommitCertificates(t),
     joins |-> certificate_achievements \cup t.joins]

\* defer tx.Rollback(): the two tables once transaction t is rolled back
AfterRollback(t) ==
    [certificates |-> certificates, joins |-> certificate_achievements]

\* repository Create returns err: the deferred Rollback discards the transaction
RepoCreateFails(p, err) ==
    /\ certificates' = AfterRollback(tx[p]).certificates
    /\ certificate_achievements' = AfterRollback(tx[p]).joins
    /\ tx' = [tx EXCEPT ![p] = NoTx]
    /\ repoCalls' = (proc[p].id :> [achievement_ids |-> proc[p].req.achievement_ids,
                                     returned |-> "error"]) @@ repoCalls
    /\ Finish(p, [Res("create", err, HandlerCreateStatus(err), proc[p].id, NoResp)
                     EXCEPT !.number = proc[p].number])

\* cert built, valid_until parsed, then repository Create: BeginTxx and the
\* INSERT INTO certificates
CreateInsert(p) ==
    /\ proc[p].pc = "create_insert"
    /\ straddled' = (straddled \/ clock # proc[p].year)
    /\ IF proc[p].req.valid_until # "" /\ ~IsISODate(proc[p].req.valid_until)
       THEN /\ Finish(p, Res("create", ErrValidUntil,
                             HandlerCreateStatus(ErrValidUntil), UnknownID, NoResp))
            /\ UNCHANGED << tx, repoCalls, certificates, certificate_achievements >>
       ELSE \E fault \in BOOLEAN :
              LET row == NewCertificate(p)
              IN  IF fault THEN RepoCreateFails(p, ErrDBUnavailable)
                  ELSE /\ ~WaitsForKey(p, row)
                       /\ IF InsertCertificateError(row) # ""
                          THEN RepoCreateFails(p, InsertCertificateError(row))
                          ELSE /\ tx' = [tx EXCEPT ![p].cert = Some(row)]
                               /\ repoCalls' = repoCalls @@
                                      (row.id :> [achievement_ids |->
                                                      proc[p].req.achievement_ids,
                                                  returned |-> "running"])
                               /\ proc' = [proc EXCEPT ![p].pc = "create_join",
                                                       ![p].k = 1]
                               /\ UNCHANGED << certificates,
                                               certificate_achievements >>
    /\ UNCHANGED << clock, students, achievements, pdfTasks, issued, overlapped >>
    /\ UNCHANGED << objects, student_cols, call, uploads >>

\* one turn of the loop over achievementIDs: INSERT INTO certificate_achievements
CreateJoin(p) ==
    /\ proc[p].pc = "create_join"
    /\ LET ach == proc[p].req.achievement_ids[proc[p].k]
           err == InsertJoinError(tx[p], proc[p].id, ach)
       IN  \E fault \in BOOLEAN :
              IF fault THEN RepoCreateFails(p, ErrDBUnavailable)
              ELSE IF err # "" THEN RepoCreateFails(p, err)
              ELSE /\ tx' = [tx EXCEPT ![p].joins = @ \cup { <<proc[p].id, ach>> }]
                   /\ proc' = [proc EXCEPT
                                 ![p].k = @ + 1,
                                 ![p].pc =
                                     IF proc[p].k = Len(proc[p].req.achievement_ids)
                                     THEN "create_commit" ELSE "create_join"]
                   /\ UNCHANGED << repoCalls, certificates,
                                   certificate_achievements >>
    /\ UNCHANGED << clock, students, achievements, pdfTasks, issued, overlapped,
                    straddled >>
    /\ UNCHANGED << objects, student_cols, call, uploads >>

\* tx.Commit(): the transaction's rows become visible together, or it fails
\* and nothing does
CreateCommit(p) ==
    /\ proc[p].pc = "create_commit"
    /\ \E fault \in BOOLEAN :
          IF fault
          THEN RepoCreateFails(p, ErrDBUnavailable)
          ELSE /\ certificates' = CommitCertificates(tx[p])
               /\ certificate_achievements' = certificate_achievements \cup tx[p].joins
               /\ tx' = [tx EXCEPT ![p] = NoTx]
               /\ repoCalls' = [repoCalls EXCEPT ![proc[p].id].returned = "nil"]
               /\ proc' = [proc EXCEPT ![p].pc = "create_detail"]
    /\ UNCHANGED << clock, students, achievements, pdfTasks, issued, overlapped,
                    straddled >>
    /\ UNCHANGED << objects, student_cols, call, uploads >>

\* detail := FindByIDWithDetail(cert.ID); go generateAndUploadPDF(detail); return
CreateDetail(p) ==
    /\ proc[p].pc = "create_detail"
    /\ \E fault \in BOOLEAN :
          IF fault
          THEN /\ Finish(p, Res("create", ErrDBUnavailable,
                                HandlerCreateStatus(ErrDBUnavailable),
                                proc[p].id, NoResp))
               /\ UNCHANGED pdfTasks
          ELSE /\ pdfTasks' = pdfTasks \cup
                      { [id |-> proc[p].id, stage |-> "render", url |-> ""] }
               /\ Finish(p, [Res("create", "", HandlerCreateStatus(""),
                                 proc[p].id, NoResp)
                                EXCEPT !.number = proc[p].number])
    /\ UNCHANGED << clock, students, achievements, certificates,
                    certificate_achievements, tx, issued, repoCalls, overlapped,
                    straddled >>
    /\ UNCHANGED << objects, student_cols, call, uploads >>

\* a goroutine's step: task t goes on as u (the goroutine's record is kept
\* once it has returned, with stage "failed" or "done")
TaskStep(t, u) ==
    (pdfTasks \ {t}) \cup {u}

PdfRenderCompensates(t) ==
    /\ t \in pdfTasks
    /\ t.stage = "render"
    /\ \E ok \in BOOLEAN :
          /\ pdfTasks' = TaskStep(t, [t EXCEPT !.stage = IF ok THEN "upload"
                                                        ELSE "failed"])
          /\ certificates' =
                IF ok THEN certificates
                ELSE [i \in DOMAIN certificates \ {t.id} |-> certificates[i]]
    /\ UNCHANGED << clock, students, achievements,
                    certificate_achievements, tx, proc, issued, repoCalls,
                    overlapped, straddled >>
    /\ UNCHANGED << objects, student_cols, call, uploads >>

\* generateAndUploadPDF: buildPDF; when it fails the goroutine returns without
\* a trace
PdfRender(t) ==
    /\ t \in pdfTasks
    /\ t.stage = "render"
    /\ \E ok \in BOOLEAN :
          /\ pdfTasks' = TaskStep(t, [t EXCEPT !.stage = IF ok THEN "upload"
                                                        ELSE "failed"])
          /\ certificates' = certificates
    /\ UNCHANGED << clock, students, achievements,
                    certificate_achievements, tx, proc, issued, repoCalls,
                    overlapped, straddled >>
    /\ UNCHANGED << objects, student_cols, call, uploads >>

PdfUploadUnchecked(t) ==
    /\ t \in pdfTasks
    /\ t.stage = "upload"
    /\ \E ok \in BOOLEAN :
          /\ pdfTasks' = TaskStep(t, IF ok
                                     THEN [t EXCEPT !.stage = "writeback", !.url = "pdf"]
                                     ELSE [t EXCEPT !.stage = "failed"])
          /\ objects' = IF ok THEN objects \cup {"pdf"} ELSE objects
          /\ certificates' = IF ok THEN certificates
                             ELSE RepoUpdatePDFURL(t.id, "pdf").certificates
    /\ UNCHANGED << clock, students, achievements,
                    certificate_achievements, tx, proc, issued, repoCalls,
                    overlapped, straddled >>
    /\ UNCHANGED << student_cols, call, uploads >>

\* generateAndUploadPDF: storage.UploadPDF; when it fails the goroutine returns
\* without a trace
PdfUpload(t) ==
    /\ t \in pdfTasks
    /\ t.stage = "upload"
    /\ \E ok \in BOOLEAN :
          /\ pdfTasks' = TaskStep(t, IF ok
                                     THEN [t EXCEPT !.stage = "writeback", !.url = "pdf"]
                                     ELSE [t EXCEPT !.stage = "failed"])
          /\ objects' = IF ok THEN objects \cup {"pdf"} ELSE objects
          /\ certificates' = certificates
    /\ UNCHANGED << clock, students, achievements,
                    certificate_achievements, tx, proc, issued, repoCalls,
                    overlapped, straddled >>
    /\ UNCHANGED << student_cols, call, uploads >>

\* generateAndUploadPDF: s.repo.UpdatePDFURL(ctx, id, pdfURL), its error dropped
PdfWriteBack(t) ==
    /\ t \in pdfTasks
    /\ t.stage = "writeback"
    /\ \E fault \in BOOLEAN :
          /\ pdfTasks' = TaskStep(t, [t EXCEPT !.stage = IF fault THEN "failed"
                                                        ELSE "done"])
          /\ certificates' = IF fault THEN certificates
                             ELSE RepoUpdatePDFURL(t.id, t.url).certificates
    /\ UNCHANGED << clock, students, achievements, certificate_achievements, tx,
                    proc, issued, repoCalls, overlapped, straddled >>
    /\ UNCHANGED << objects, student_cols, call, uploads >>

ServiceRevokeCheckNoGate(found) ==
    IF found = None THEN ErrCertificateNotFound ELSE ""

\* certificateService.Revoke after FindByID: the error returned before the
\* update, or "" when the update is issued
ServiceRevokeCheck(found) ==
    IF found = None THEN ErrCertificateNotFound
    ELSE IF \E c \in found : c.status = "revoked" THEN ErrAlreadyRevoked
    ELSE ""

\* POST /certificates/{id}/revoke up to the update: uuid.Parse, FindByID and
\* the status check
RevokeBegin(p, id) ==
    /\ proc[p].pc = "idle"
    /\ IF id = MalformedID
       THEN Finish(p, Res("revoke", ErrInvalidID, HandlerRevokeStatus(ErrInvalidID),
                          id, NoResp))
       ELSE \E fault \in BOOLEAN :
              IF fault
              THEN Finish(p, Res("revoke", ErrDBUnavailable,
                                 HandlerRevokeStatus(ErrDBUnavailable), id, NoResp))
              ELSE IF ServiceRevokeCheck(FindByID(id)) # ""
              THEN Finish(p, Res("revoke", ServiceRevokeCheck(FindByID(id)),
                                 HandlerRevokeStatus(ServiceRevokeCheck(FindByID(id))),
                                 id, NoResp))
              ELSE /\ proc' = [proc EXCEPT ![p] =
                                  [Idle EXCEPT !.pc = "revoke_update", !.op = "revoke", !.id = id]]
    /\ UNCHANGED << clock, students, achievements, certificates,
                    certificate_achievements, tx, pdfTasks, issued, repoCalls,
                    overlapped, straddled >>
    /\ UNCHANGED << objects, student_cols, call, uploads >>

\* return s.repo.Revoke(ctx, uid)
RevokeUpdate(p) ==
    /\ proc[p].pc = "revoke_update"
    /\ \E fault \in BOOLEAN :
          LET r == IF fault
                   THEN [err |-> ErrDBUnavailable, certificates |-> certificates]
                   ELSE RepoRevoke(proc[p].id)
          IN  /\ certificates' = r.certificates
              /\ Finish(p, Res("revoke", r.err, HandlerRevokeStatus(r.err),
                               proc[p].id, NoResp))
    /\ UNCHANGED << clock, students, achievements, certificate_achievements, tx,
                    pdfTasks, issued, repoCalls, overlapped, straddled >>
    /\ UNCHANGED << objects, student_cols, call, uploads >>

NotFoundMessage == "Sertifikat tidak ditemukan. Dokumen ini mungkin tidak sah."

VerifyNotFoundValid(token) ==
    [NoResp EXCEPT !.is_valid = TRUE, !.message = NotFoundMessage]

\* certificateService.Verify: the answer for a token no certificate carries
VerifyNotFound(token) ==
    [NoResp EXCEPT !.message = NotFoundMessage]

VerifyRevokedWithStudent(cert) ==
    [NoResp EXCEPT !.certificate = Some(cert), !.student = Some(cert.student_id),
                   !.message = "Sertifikat ini telah dicabut dan tidak berlaku."]

\* certificateService.Verify: the answer for a revoked certificate
VerifyRevoked(cert) ==
    [NoResp EXCEPT !.certificate = Some(cert),
                   !.message = "Sertifikat ini telah dicabut dan tidak berlaku."]

VerifyValidUnlessExpired(cert, student, achs) ==
    [is_valid |-> cert.valid_until = "", certificate |-> Some(cert),
     student |-> Some(student), achievements |-> achs,
     message |-> "Sertifikat valid dan sah dikeluarkan oleh sekolah."]

\* certificateService.Verify: the answer for an active certificate
VerifyValid(cert, student, achs) ==
    [is_valid |-> TRUE, certificate |-> Some(cert), student |-> Some(student),
     achievements |-> achs,
     message |-> "Sertifikat valid dan sah dikeluarkan oleh sekolah."]

\* GET /verify/{token} up to the detail read: FindByQRToken and the two early
\* answers
VerifyBegin(p, token) ==
    /\ proc[p].pc = "idle"
    /\ \E fault \in BOOLEAN :
          LET found == FindByQRToken(token)
          IN  IF fault
              THEN Finish(p, Res("verify", ErrDBUnavailable,
                                 HandlerVerifyStatus(ErrDBUnavailable, FALSE),
                                 UnknownID, NoResp))
              ELSE IF found = None
              THEN Finish(p, [Res("verify", "", HandlerVerifyStatus("", FALSE),
                                  UnknownID, VerifyNotFound(token))
                                 EXCEPT !.token = token])
              ELSE IF \E c \in found : c.status = "revoked"
              THEN \E c \in found :
                      Finish(p, [Res("verify", "", HandlerVerifyStatus("", FALSE),
                                     c.id, VerifyRevoked(c))
                                    EXCEPT !.token = token])
              ELSE \E c \in found :
                      /\ proc' = [proc EXCEPT ![p] =
                                     [Idle EXCEPT !.pc = "verify_detail", !.op = "verify",
                                                  !.id = c.id, !.token = token,
                                                  !.cert = Some(c)]]
    /\ UNCHANGED << clock, students, achievements, certificates,
                    certificate_achievements, tx, pdfTasks, issued, repoCalls,
                    overlapped, straddled >>
    /\ UNCHANGED << objects, student_cols, call, uploads >>

\* detail := FindByIDWithDetail(cert.ID) and the valid answer
VerifyDetail(p) ==
    /\ proc[p].pc = "verify_detail"
    /\ \E fault \in BOOLEAN :
          IF fault
          THEN Finish(p, [Res("verify", ErrDBUnavailable,
                              HandlerVerifyStatus(ErrDBUnavailable, FALSE),
                              proc[p].id, NoResp)
                             EXCEPT !.token = proc[p].token])
          ELSE \E c \in proc[p].cert :
               \E achs \in OrderedByYearDesc(JoinedAchievements(proc[p].id)) :
                  Finish(p, [Res("verify", "", HandlerVerifyStatus("", TRUE),
                                 proc[p].id,
                                 VerifyValid(c, certificates[proc[p].id].student_id,
                                             achs))
                                EXCEPT !.token = proc[p].token])
    /\ UNCHANGED << clock, students, achievements, certificates,
                    certificate_achievements, tx, pdfTasks, issued, repoCalls,
                    overlapped, straddled >>
    /\ UNCHANGED << objects, student_cols, call, uploads >>

DownloadPDFStores(p, id) ==
    /\ proc[p].pc = "idle"
    /\ \E err \in {"", ErrDBUnavailable, ErrRender} :
          LET e == IF id = MalformedID THEN ErrInvalidID
                   ELSE IF err = ErrDBUnavailable THEN err
                   ELSE IF FindByID(id) = None THEN ErrCertificateNotFound
                   ELSE err
          IN  /\ Finish(p, Res("download", e, HandlerDownloadStatus(e), id, NoResp))
              /\ certificates' = IF e = "" THEN RepoUpdatePDFURL(id, "pdf").certificates
                                 ELSE certificates
    /\ UNCHANGED << clock, students, achievements,
                    certificate_achievements, tx, pdfTasks, issued, repoCalls,
                    overlapped, straddled >>
    /\ UNCHANGED << objects, student_cols, call, uploads >>

\* GET /certificates/{id}/download: GetByID then buildPDF, nothing stored
DownloadPDF(p, id) ==
    /\ proc[p].pc = "idle"
    /\ \E err \in {"", ErrDBUnavailable, ErrRender} :
          LET e == IF id = MalformedID THEN ErrInvalidID
                   ELSE IF err = ErrDBUnavailable THEN err
                   ELSE IF FindByID(id) = None THEN ErrCertificateNotFound
                   ELSE err
          IN  Finish(p, Res("download", e, HandlerDownloadStatus(e), id, NoResp))
    /\ UNCHANGED << clock, students, achievements, certificates,
                    certificate_achievements, tx, pdfTasks, issued, repoCalls,
                    overlapped, straddled >>
    /\ UNCHANGED << objects, student_cols, call, uploads >>

\* achievements of a set of students: achievements.student_id ON DELETE CASCADE
AchievementsOf(sids) ==
    { a \in DOMAIN achievements : achievements[a].student_id \in sids }

\* a DELETE of these achievement rows waits while an open transaction has
\* inserted a join row that references one of them
WaitsForAchievements(p, achs) ==
    \E q \in Procs \ {p} : \E pair \in tx[q].joins : pair[2] \in achs

\* a DELETE of this student row waits while an open transaction has inserted a
\* certificate that references it
WaitsForStudent(p, sid) ==
    \E q \in Procs \ {p} : \E c \in tx[q].cert : c.student_id = sid

\* the join table once these achievement rows are gone:
\* certificate_achievements.achievement_id ON DELETE CASCADE
CascadeJoins(achs) ==
    { pair \in certificate_achievements : pair[2] \notin achs }

\* achievementRepository.Delete: [err, achievements and join rows afterwards]
RepoAchievementDelete(aid) ==
    [err |-> "",
     achievements |-> [a \in DOMAIN achievements \ {aid} |-> achievements[a]],
     joins |-> CascadeJoins({aid})]

RepoStudentDeleteCascade(sid) ==
    [err |-> "",
     students |-> students \ {sid},
     achievements |-> [a \in DOMAIN achievements \ AchievementsOf({sid}) |->
                          achievements[a]],
     joins |-> CascadeJoins(AchievementsOf({sid})),
     certificates |-> [i \in { j \in DOMAIN certificates :
                                  certificates[j].student_id # sid } |->
                          certificates[i]]]

\* studentRepository.Delete: [err, the four tables afterwards];
\* certificates.student_id has no ON DELETE rule, so a referenced student stays
RepoStudentDelete(sid) ==
    IF \E i \in DOMAIN certificates : certificates[i].student_id = sid
    THEN [err |-> ErrForeignKey, students |-> students,
          achievements |-> achievements, joins |-> certificate_achievements,
          certificates |-> certificates]
    ELSE [err |-> "",
          students |-> students \ {sid},
          achievements |-> [a \in DOMAIN achievements \ AchievementsOf({sid}) |->
                               achievements[a]],
          joins |-> CascadeJoins(AchievementsOf({sid})),
          certificates |-> certificates]

\* DELETE /students/{id} up to the statement: studentService.GetByID
StudentDeleteBegin(p, sid) ==
    /\ proc[p].pc = "idle"
    /\ \E fault \in BOOLEAN :
          LET e == IF ~IsUUID(sid) THEN ErrInvalidID
                   ELSE IF fault THEN ErrDBUnavailable
                   ELSE IF sid \notin students THEN ErrStudentNotFound
                   ELSE ""
          IN  IF e # ""
              THEN Finish(p, [Res("student_delete", e, HandlerStudentDeleteStatus(e),
                                  UnknownID, NoResp) EXCEPT !.key = sid])
              ELSE proc' = [proc EXCEPT ![p] =
                              [Idle EXCEPT !.pc = "student_delete",
                                           !.op = "student_delete", !.key = sid]]
    /\ UNCHANGED << clock, students, achievements, certificates,
                    certificate_achievements, tx, pdfTasks, issued, repoCalls,
                    overlapped, straddled >>
    /\ UNCHANGED << objects, student_cols, call, uploads >>

\* return s.repo.Delete(ctx, uid)
StudentDelete(p) ==
    /\ proc[p].pc = "student_delete"
    /\ ~WaitsForStudent(p, proc[p].key)
    /\ ~WaitsForAchievements(p, AchievementsOf({proc[p].key}))
    /\ \E fault \in BOOLEAN :
          LET r == IF fault
                   THEN [err |-> ErrDBUnavailable, students |-> students,
                         achievements |-> achievements,
                         joins |-> certificate_achievements,
                         certificates |-> certificates]
                   ELSE RepoStudentDelete(proc[p].key)
          IN  /\ students' = r.students
              /\ achievements' = r.achievements
              /\ certificate_achievements' = r.joins
              /\ certificates' = r.certificates
              /\ student_cols' = [i \in r.students |-> student_cols[i]]
              /\ Finish(p, [Res("student_delete", r.err,
                                HandlerStudentDeleteStatus(r.err), UnknownID, NoResp)
                               EXCEPT !.key = proc[p].key])
    /\ UNCHANGED << clock, tx, pdfTasks, issued, repoCalls, overlapped, straddled >>
    /\ UNCHANGED << objects, call, uploads >>

\* DELETE /achievements/{id} up to the statement: uuid.Parse and
\* FindByIDWithAttachments, whose error is answered as not found
AchievementDeleteBegin(p, aid) ==
    /\ proc[p].pc = "idle"
    /\ \E fault \in BOOLEAN :
          LET e == IF ~IsUUID(aid) THEN ErrInvalidID
                   ELSE IF fault \/ aid \notin DOMAIN achievements
                   THEN ErrAchievementNotFound
                   ELSE ""
          IN  IF e # ""
              THEN Finish(p, [Res("achievement_delete", e,
                                  HandlerAchievementDeleteStatus(e), UnknownID, NoResp)
                                 EXCEPT !.key = aid])
              ELSE proc' = [proc EXCEPT ![p] =
                              [Idle EXCEPT !.pc = "achievement_delete",
                                           !.op = "achievement_delete", !.key = aid]]
    /\ UNCHANGED << clock, students, achievements, certificates,
                    certificate_achievements, tx, pdfTasks, issued, repoCalls,
                    overlapped, straddled >>
    /\ UNCHANGED << objects, student_cols, call, uploads >>

\* the attachments' files are removed, then return s.repo.Delete(ctx, uid)
AchievementDelete(p) ==
    /\ proc[p].pc = "achievement_delete"
    /\ ~WaitsForAchievements(p, {proc[p].key})
    /\ \E fault \in BOOLEAN :
          LET r == IF fault
                   THEN [err |-> ErrDBUnavailable, achievements |-> achievements,
                         joins |-> certificate_achievements]
                   ELSE RepoAchievementDelete(proc[p].key)
          IN  /\ achievements' = r.achievements
              /\ certificate_achievements' = r.joins
              /\ Finish(p, [Res("achievement_delete", r.err,
                                HandlerAchievementDeleteStatus(r.err), UnknownID,
                                NoResp)
                               EXCEPT !.key = proc[p].key])
    /\ UNCHANGED << clock, students, certificates, tx, pdfTasks, issued, repoCalls,
                    overlapped, straddled >>
    /\ UNCHANGED << objects, student_cols, call, uploads >>

\* ids a caller may name
NamedIDs == DOMAIN certificates \cup {UnknownID, MalformedID}

\* the two well-formed requests of Requests
PlainRequests == { r \in Requests : r.student_id = "s1" /\ r.valid_until # "31-12-2020"
                                     /\ r.achievement_ids \in { <<"a1">>, <<"a1", "a2">> } }

\* every operation of the certificate service, issuance with well-formed requests
Next ==
    \/ \E p \in Procs : \E req \in PlainRequests :
          issued < MaxIssueMixed /\ CreateBegin(p, req)
    \/ \E p \in Procs : CreateNumber(p)
    \/ \E p \in Procs : CreateInsert(p)
    \/ \E p \in Procs : CreateJoin(p)
    \/ \E p \in Procs : CreateCommit(p)
    \/ \E p \in Procs : CreateDetail(p)
    \/ \E t \in pdfTasks : PdfRender(t)
    \/ \E t \in pdfTasks : PdfUpload(t)
    \/ \E t \in pdfTasks : PdfWriteBack(t)
    \/ \E p \in Procs : \E id \in NamedIDs : RevokeBegin(p, id)
    \/ \E p \in Procs : RevokeUpdate(p)
    \/ \E p \in Procs : \E token \in Tokens : VerifyBegin(p, token)
    \/ \E p \in Procs : VerifyDetail(p)
    \/ \E p \in Procs : \E id \in NamedIDs : DownloadPDF(p, id)

Spec == Init /\ [][Next]_vars

\* path parameters a caller may name in a student or achievement deletion
NamedStudents == {"s1", "s2"}
NamedAchievements == {"a1", "a3"}

\* tokens and certificate ids a caller of the ledger may name
LedgerTokens == {"tokA"}
LedgerIDs == DOMAIN certificates \cup {UnknownID}

\* issuance requests of the ledger as a whole: a well-formed one, one naming
\* another student's achievement, one with an empty list
LedgerRequests ==
    { Req("s1", <<"a1">>, ""), Req("s1", <<"a3">>, ""), Req("s1", << >>, "") }

\* the certificate service together with student and achievement deletion
NextLedger ==
    \/ \E p \in Procs : \E req \in LedgerRequests :
          issued < MaxIssueMixed /\ CreateBegin(p, req)
    \/ \E p \in Procs : CreateNumber(p)
    \/ \E p \in Procs : CreateInsert(p)
    \/ \E p \in Procs : CreateJoin(p)
    \/ \E p \in Procs : CreateCommit(p)
    \/ \E p \in Procs : CreateDetail(p)
    \/ \E t \in pdfTasks : PdfRender(t)
    \/ \E t \in pdfTasks : PdfUpload(t)
    \/ \E t \in pdfTasks : PdfWriteBack(t)
    \/ \E p \in Procs : \E id \in LedgerIDs : RevokeBegin(p, id)
    \/ \E p \in Procs : RevokeUpdate(p)
    \/ \E p \in Procs : \E token \in LedgerTokens : VerifyBegin(p, token)
    \/ \E p \in Procs : VerifyDetail(p)
    \/ \E p \in Procs : \E id \in LedgerIDs : DownloadPDF(p, id)
    \/ \E p \in Procs : \E sid \in NamedStudents : StudentDeleteBegin(p, sid)
    \/ \E p \in Procs : StudentDelete(p)
    \/ \E p \in Procs : \E aid \in NamedAchievements : AchievementDeleteBegin(p, aid)
    \/ \E p \in Procs : AchievementDelete(p)

\* the ledger starts empty or with one active certificate issued earlier
InitLedger ==
    /\ Init
    /\ \A id \in DOMAIN certificates : certificates[id].status = "active"

SpecLedger == InitLedger /\ [][NextLedger]_vars

\* issuance alone, with every request of Requests and a clock that advances
NextIssue ==
    \/ Tick
    \/ \E p \in Procs : \E req \in Requests : CreateBegin(p, req)
    \/ \E p \in Procs : CreateNumber(p)
    \/ \E p \in Procs : CreateInsert(p)
    \/ \E p \in Procs : CreateJoin(p)
    \/ \E p \in Procs : CreateCommit(p)
    \/ \E p \in Procs : CreateDetail(p)

\* the status of the rows present at the start plays no part in issuance
InitIssue ==
    /\ Init
    /\ \A id \in DOMAIN certificates : certificates[id].status = "active"

SpecIssue == InitIssue /\ [][NextIssue]_vars

(* ------------------------------- router ------------------------------- *)

\* strings.EqualFold on the words that occur as an authorization scheme or role
Lower(w) ==
    IF w \in {"Bearer", "bearer", "BEARER"} THEN "bearer"
    ELSE IF w \in {"Admin", "admin"} THEN "admin"
    ELSE w
EqualFold(a, b) == Lower(a) = Lower(b)

\* Authorization headers: absent, a single word, or "<scheme> <token>"; a token
\* is described by how utils.ValidateToken fares on it and by its role claim
JWTs ==
    [kind : {"access", "refresh", "expired", "forged"}, role : {"admin", "teacher"}]
NoHeader == [parts |-> 0, scheme |-> "", token |-> [kind |-> "", role |-> ""]]
Headers ==
    {NoHeader}
    \cup { [parts |-> 1, scheme |-> "Bearer", token |-> [kind |-> "", role |-> ""]] }
    \cup [parts : {2}, scheme : {"Bearer", "bearer", "Basic"}, token : JWTs]

\* utils.ValidateToken: the signature and the expiry are checked, the token's
\* type is not
ValidateToken(token) == token.kind \in {"access", "refresh"}

AuthenticateNoCheck(header) ==
    [status |-> 0, role |-> header.token.role]

\* middleware.Authenticate: 401, or status 0 and the role put in the context
Authenticate(header) ==
    IF header.parts = 0 THEN [status |-> 401, role |-> ""]
    ELSE IF header.parts # 2 \/ ~EqualFold(header.scheme, "Bearer")
    THEN [status |-> 401, role |-> ""]
    ELSE IF ~ValidateToken(header.token) THEN [status |-> 401, role |-> ""]
    ELSE [status |-> 0, role |-> header.token.role]

\* middleware.RequireRole: 401 without a role, 403 for a role not listed
RequireRole(roles, role) ==
    IF role = "" THEN 401
    ELSE IF \E r \in roles : EqualFold(role, r) THEN 0
    ELSE 403

Route(method, path, handler, use) ==
    [method |-> method, path |-> path, handler |-> handler, use |-> use]

\* Router.Setup: every route with the middleware its request passes through
Setup ==
    { Route("GET", "/health", "health", << >>),
      Route("GET", "/swagger/*", "swagger", << >>),
      Route("POST", "/api/v1/auth/login", "authHandler.Login", << >>),
      Route("POST", "/api/v1/auth/refresh", "authHandler.RefreshToken", << >>),
      Route("GET", "/api/v1/auth/me", "authHandler.Me", <<"Authenticate">>),
      Route("GET", "/api/v1/verify/{token}", "certificateHandler.Verify", << >>),
      Route("POST", "/api/v1/users", "authHandler.Register",
            <<"Authenticate", "RequireRole">>),
      Route("GET", "/api/v1/students", "studentHandler.GetAll", <<"Authenticate">>),
      Route("POST", "/api/v1/students", "studentHandler.Create", <<"Authenticate">>),
      Route("GET", "/api/v1/students/{id}", "studentHandler.GetByID",
            <<"Authenticate">>),
      Route("PUT", "/api/v1/students/{id}", "studentHandler.Update",
            <<"Authenticate">>),
      Route("DELETE", "/api/v1/students/{id}", "studentHandler.Delete",
            <<"Authenticate">>),
      Route("POST", "/api/v1/students/{id}/photo", "studentHandler.UploadPhoto",
            <<"Authenticate">>),
      Route("GET", "/api/v1/achievements/categories",
            "achievementHandler.GetCategories", <<"Authenticate">>),
      Route("GET", "/api/v1/achievements/levels", "achievementHandler.GetLevels",
            <<"Authenticate">>),
      Route("GET", "/api/v1/achievements", "achievementHandler.GetAll",
            <<"Authenticate">>),
      Route("POST", "/api/v1/achievements", "achievementHandler.Create",
            <<"Authenticate">>),
      Route("GET", "/api/v1/achievements/{id}", "achievementHandler.GetByID",
            <<"Authenticate">>),
      Route("PUT", "/api/v1/achievements/{id}", "achievementHandler.Update",
            <<"Authenticate">>),
      Route("DELETE", "/api/v1/achievements/{id}", "achievementHandler.Delete",
            <<"Authenticate">>),
      Route("POST", "/api/v1/achievements/{id}/attachments",
            "achievementHandler.UploadAttachment", <<"Authenticate">>),
      Route("DELETE", "/api/v1/achievements/attachments/{attachmentId}",
            "achievementHandler.DeleteAttachment", <<"Authenticate">>),
      Route("GET", "/api/v1/certificates", "certificateHandler.GetAll",
            <<"Authenticate">>),
      Route("POST", "/api/v1/certificates", "certificateHandler.Create",
            <<"Authenticate">>),
      Route("GET", "/api/v1/certificates/{id}", "certificateHandler.GetByID",
            <<"Authenticate">>),
      Route("GET", "/api/v1/certificates/{id}/download",
            "certificateHandler.Download", <<"Authenticate">>),
      Route("POST", "/api/v1/certificates/{id}/revoke", "certificateHandler.Revoke",
            <<"Authenticate">>) }

\* the request passes through the route's middleware in order: the status of
\* the first one that answers, or status 0 and the handler that is reached
RECURSIVE Through(_, _, _, _)
Through(use, i, header, role) ==
    IF i > Len(use) THEN 0
    ELSE IF use[i] = "Authenticate"
    THEN IF Authenticate(header).status # 0 THEN Authenticate(header).status
         ELSE Through(use, i + 1, header, Authenticate(header).role)
    ELSE IF RequireRole({"admin", "headmaster"}, role) # 0
    THEN RequireRole({"admin", "headmaster"}, role)
    ELSE Through(use, i + 1, header, role)

\* the router serves a request that matched route
ServeHTTP(route, header) ==
    LET status == Through(route.use, 1, header, "")
    IN  [status |-> status,
         handler |-> IF status = 0 THEN route.handler ELSE "",
         authenticated |-> \E i \in 1..Len(route.use) : route.use[i] = "Authenticate"]

\* a request arrives: it matches one of the routes and carries one of the headers
InitRouter ==
    /\ InitStore
    /\ certificates = << >>
    /\ \E route \in Setup : \E header \in Headers :
          call = [fn |-> "ServeHTTP", in |-> [route |-> route, header |-> header],
                  out |-> [status |-> 0, handler |-> "", authenticated |-> FALSE],
                  done |-> FALSE]

\* the request is served
Serve ==
    /\ call.fn = "ServeHTTP"
    /\ ~call.done
    /\ call' = [call EXCEPT !.out = ServeHTTP(call.in.route, call.in.header),
                            !.done = TRUE]
    /\ UNCHANGED << clock, students, achievements, certificates,
                    certificate_achievements, tx, proc, pdfTasks, issued, repoCalls,
                    overlapped, straddled, objects, student_cols, uploads >>

NextRouter == Serve

SpecRouter == InitRouter /\ [][NextRouter]_vars

(* --------------------------- PDF rendering ---------------------------- *)

\* a string is the sequence of its characters (code points); the characters of
\* the names rendered: the letters a to z in turn, and one e with acute accent
\* at position k (none when k = 0)
Letter(i) == 97 + (i % 26)
EAcute == 233
Name(n, k) == [i \in 1..n |-> IF i = k THEN EAcute ELSE Letter(i)]
Names == { Name(n, k) : n \in 0..MaxNameLen, k \in 0..MaxNameLen }

\* the UTF-8 bytes of a character below U+0800, and of a string: what a Go
\* string holds
EncodeRune(c) ==
    IF c < 128 THEN << c >> ELSE << 192 + (c \div 64), 128 + (c % 64) >>
RECURSIVE Bytes(_)
Bytes(str) ==
    IF Len(str) = 0 THEN << >>
    ELSE EncodeRune(Head(str)) \o Bytes(Tail(str))

\* "..." as bytes
Ellipsis == << 46, 46, 46 >>

\* the column widths truncate is called with
ColumnWidths == {30, 22, 14}

\* utils.truncate on the Go string of str: len(s) and s[:max-3] count bytes
truncate(str, max) ==
    IF Len(Bytes(str)) <= max THEN Bytes(str)
    ELSE SubSeq(Bytes(str), 1, max - 3) \o Ellipsis

\* utils.GenerateQRCodePNG: the image, or an error and no image
GenerateQRCodePNG(content, fails) ==
    IF fails THEN [png |-> << >>, err |-> "gagal generate QR code"]
    ELSE [png |-> << content >>, err |-> ""]

\* utils.GenerateCertificatePDF: the document with one table row per
\* achievement and the QR block when there is an image, or the error of
\* pdf.Output
GenerateCertificatePDF(data, outputFails) ==
    IF outputFails
    THEN [err |-> ErrRender, rows |-> 0, qr_block |-> FALSE]
    ELSE [err |-> "", rows |-> data.rows, qr_block |-> Len(data.QRCodePNG) > 0]

buildPDFStrict(detail, qrFails, outputFails) ==
    LET qr == GenerateQRCodePNG(detail.qr_token, qrFails)
    IN  IF qr.err # ""
        THEN [err |-> qr.err, rows |-> 0, qr_block |-> FALSE, number |-> detail.number]
        ELSE [number |-> detail.number]
             @@ GenerateCertificatePDF([number |-> detail.number, rows |-> detail.rows,
                                        QRCodePNG |-> qr.png], outputFails)

\* certificateService.buildPDF: the error of GenerateQRCodePNG is dropped; the
\* certificate number is returned beside the document or the error
buildPDF(detail, qrFails, outputFails) ==
    LET qr == GenerateQRCodePNG(detail.qr_token, qrFails)
    IN  [number |-> detail.number]
        @@ GenerateCertificatePDF([number |-> detail.number, rows |-> detail.rows,
                                   QRCodePNG |-> qr.png], outputFails)

\* the certificate details rendered
Details ==
    [number : {GenerateCertificateNumber(StartYear, 1)}, qr_token : Tokens,
     rows : 0..2]

\* a function of the renderer is called with one of its inputs
InitRender ==
    /\ InitStore
    /\ certificates = << >>
    /\ \/ \E str \in Names : \E max \in ColumnWidths :
             call = [fn |-> "truncate", in |-> [s |-> str, max |-> max],
                     out |-> << >>, done |-> FALSE]
       \/ \E detail \in Details : \E qrFails, outputFails \in BOOLEAN :
             call = [fn |-> "buildPDF",
                     in |-> [detail |-> detail, qrFails |-> qrFails,
                             outputFails |-> outputFails],
                     out |-> << >>, done |-> FALSE]

\* truncate returns
CallTruncate ==
    /\ call.fn = "truncate"
    /\ ~call.done
    /\ call' = [call EXCEPT !.out = truncate(call.in.s, call.in.max), !.done = TRUE]
    /\ UNCHANGED << clock, students, achievements, certificates,
                    certificate_achievements, tx, proc, pdfTasks, issued, repoCalls,
                    overlapped, straddled, objects, student_cols, uploads >>

\* buildPDF returns
CallBuildPDF ==
    /\ call.fn = "buildPDF"
    /\ ~call.done
    /\ call' = [call EXCEPT !.out = buildPDF(call.in.detail, call.in.qrFails,
                                             call.in.outputFails),
                            !.done = TRUE]
    /\ UNCHANGED << clock, students, achievements, certificates,
                    certificate_achievements, tx, proc, pdfTasks, issued, repoCalls,
                    overlapped, straddled, objects, student_cols, uploads >>

NextRender ==
    \/ CallTruncate
    \/ CallBuildPDF

SpecRender == InitRender /\ [][NextRender]_vars

(* ------------------------------ students ------------------------------ *)

ErrNISNAlreadyExist == "NISN sudah terdaftar"
ErrUniqueNISN == "pq: unique_violation students_nisn_key"
ErrNISNInvalid == "Validasi gagal"
ErrPhotoFormat == "Format foto hanya JPG dan PNG"
ErrUpload == "gagal upload file"

\* StudentHandler.Create: HTTP status for the outcome
HandlerStudentCreateStatus(err) ==
    IF err = "" THEN 201
    ELSE IF err \in {ErrNISNInvalid, ErrNISNAlreadyExist} THEN 400
    ELSE 500

\* StudentHandler.UploadPhoto: HTTP status for the outcome
HandlerUploadPhotoStatus(err) ==
    IF err = "" THEN 200
    ELSE IF err = ErrStudentNotFound THEN 404
    ELSE 400

\* studentRepository.FindByNISN: the rows with this NISN
FindByNISN(nisn) ==
    { sid \in students : student_cols[sid].nisn = nisn }

InsertStudentErrorNoNISNKey(nisn) ==
    ""

\* INSERT INTO students: students.nisn is UNIQUE
InsertStudentError(nisn) ==
    IF FindByNISN(nisn) # {} THEN ErrUniqueNISN ELSE ""

\* the NISNs sent: one stored, one new, one that is not 10 digits long
NISNs == {"n1", "n3", ""}

\* uuid.New() for a student row: an id no row has had
NewStudentIDs == << "s3", "s4" >>
UnusedStudentIDs == { k \in DOMAIN NewStudentIDs : NewStudentIDs[k] \notin students }

\* the name UploadFile gives its n-th object
PhotoURL(n) == "students/photos/" \o ToString(n)

\* POST /students up to the insert: validation, then FindByNISN
StudentCreateBegin(p, nisn) ==
    /\ proc[p].pc = "idle"
    /\ \E fault \in BOOLEAN :
          LET e == IF nisn = "" THEN ErrNISNInvalid
                   ELSE IF fault THEN ErrDBUnavailable
                   ELSE IF FindByNISN(nisn) # {} THEN ErrNISNAlreadyExist
                   ELSE ""
          IN  IF e # ""
              THEN Finish(p, [Res("student_create", e, HandlerStudentCreateStatus(e),
                                  UnknownID, NoResp) EXCEPT !.key = nisn])
              ELSE proc' = [proc EXCEPT ![p] =
                              [Idle EXCEPT !.pc = "student_insert",
                                           !.op = "student_create", !.key = nisn]]
    /\ UNCHANGED << clock, students, achievements, certificates,
                    certificate_achievements, tx, pdfTasks, issued, repoCalls,
                    overlapped, straddled >>
    /\ UNCHANGED << objects, student_cols, call, uploads >>

\* s.repo.Create(ctx, student): one statement, its error returned as it is
StudentCreateInsert(p) ==
    /\ proc[p].pc = "student_insert"
    /\ UnusedStudentIDs # {}
    /\ \E fault \in BOOLEAN :
          LET e == IF fault THEN ErrDBUnavailable ELSE InsertStudentError(proc[p].key)
              sid == NewStudentIDs[CHOOSE k \in UnusedStudentIDs :
                                      \A j \in UnusedStudentIDs : k <= j]
          IN  /\ students' = IF e = "" THEN students \cup {sid} ELSE students
              /\ student_cols' =
                    IF e = "" THEN student_cols @@ (sid :> StudentRow(proc[p].key, "Citra"))
                    ELSE student_cols
              /\ Finish(p, [Res("student_create", e, HandlerStudentCreateStatus(e),
                                UnknownID, NoResp) EXCEPT !.key = proc[p].key])
    /\ UNCHANGED << clock, achievements, certificates,
                    certificate_achievements, tx, pdfTasks, issued, repoCalls,
                    overlapped, straddled >>
    /\ UNCHANGED << objects, call, uploads >>

\* POST /students/{id}/photo up to the storage calls: the handler's check of
\* the content type, then studentService.GetByID
UploadPhotoBegin(p, sid, image) ==
    /\ proc[p].pc = "idle"
    /\ \E fault \in BOOLEAN :
          LET e == IF ~image THEN ErrPhotoFormat
                   ELSE IF ~IsUUID(sid) THEN ErrInvalidID
                   ELSE IF fault THEN ErrDBUnavailable
                   ELSE IF sid \notin students THEN ErrStudentNotFound
                   ELSE ""
          IN  IF e # ""
              THEN Finish(p, [Res("upload_photo", e, HandlerUploadPhotoStatus(e),
                                  UnknownID, NoResp) EXCEPT !.key = sid])
              ELSE proc' = [proc EXCEPT ![p] =
                              [Idle EXCEPT !.pc = "photo_delete",
                                           !.op = "upload_photo", !.key = sid,
                                           !.student = Some(student_cols[sid])]]
    /\ UNCHANGED << clock, students, achievements, certificates,
                    certificate_achievements, tx, pdfTasks, issued, repoCalls,
                    overlapped, straddled >>
    /\ UNCHANGED << objects, student_cols, call, uploads >>

\* if student.PhotoURL != nil { s.storage.DeleteFile(...) }: the old object is
\* removed first, and the error of DeleteFile is not looked at
UploadPhotoDeleteOld(p) ==
    /\ proc[p].pc = "photo_delete"
    /\ \E student \in proc[p].student : \E removed \in BOOLEAN :
          objects' = IF student.photo_url # "" /\ removed
                     THEN objects \ {student.photo_url}
                     ELSE objects
    /\ proc' = [proc EXCEPT ![p].pc = "photo_upload"]
    /\ UNCHANGED << clock, students, achievements, certificates,
                    certificate_achievements, tx, pdfTasks, issued, repoCalls,
                    overlapped, straddled >>
    /\ UNCHANGED << student_cols, call, uploads >>

\* s.storage.UploadFile: PutObject under a name no object has had
UploadPhotoUpload(p) ==
    /\ proc[p].pc = "photo_upload"
    /\ \E ok \in BOOLEAN :
          IF ok
          THEN /\ uploads < MaxUploads
               /\ uploads' = uploads + 1
               /\ objects' = objects \cup {PhotoURL(uploads + 1)}
               /\ proc' = [proc EXCEPT ![p].pc = "photo_update",
                                       ![p].file_url = PhotoURL(uploads + 1)]
          ELSE /\ UNCHANGED << uploads, objects >>
               /\ Finish(p, [Res("upload_photo", ErrUpload,
                                 HandlerUploadPhotoStatus(ErrUpload), UnknownID, NoResp)
                                EXCEPT !.key = proc[p].key])
    /\ UNCHANGED << clock, students, achievements, certificates,
                    certificate_achievements, tx, pdfTasks, issued, repoCalls,
                    overlapped, straddled >>
    /\ UNCHANGED << student_cols, call >>

\* s.repo.UpdatePhoto: UPDATE students SET photo_url = $1 WHERE id = $3
UploadPhotoUpdate(p) ==
    /\ proc[p].pc = "photo_update"
    /\ \E fault \in BOOLEAN :
          LET e == IF fault THEN ErrDBUnavailable ELSE ""
          IN  /\ student_cols' =
                    IF e = "" /\ proc[p].key \in students
                    THEN [student_cols EXCEPT ![proc[p].key].photo_url = proc[p].file_url]
                    ELSE student_cols
              /\ Finish(p, [Res("upload_photo", e, HandlerUploadPhotoStatus(e),
                                UnknownID, NoResp)
                               EXCEPT !.key = proc[p].key,
                                      !.file_url = proc[p].file_url])
    /\ UNCHANGED << clock, students, achievements, certificates,
                    certificate_achievements, tx, pdfTasks, issued, repoCalls,
                    overlapped, straddled >>
    /\ UNCHANGED << objects, call, uploads >>

\* the students whose photo is uploaded: one stored, one unknown, one malformed
PhotoStudents == {"s1", "s9", "bad"}

NextStudents ==
    \/ \E p \in Procs : \E nisn \in NISNs : StudentCreateBegin(p, nisn)
    \/ \E p \in Procs : StudentCreateInsert(p)
    \/ \E p \in Procs : \E sid \in PhotoStudents : \E image \in BOOLEAN :
          UploadPhotoBegin(p, sid, image)
    \/ \E p \in Procs : UploadPhotoDeleteOld(p)
    \/ \E p \in Procs : UploadPhotoUpload(p)
    \/ \E p \in Procs : UploadPhotoUpdate(p)
    \/ \E p \in Procs : StudentDeleteBegin(p, "s1")
    \/ \E p \in Procs : StudentDelete(p)

\* the student service on a store without certificates
InitStudents ==
    /\ Init
    /\ certificates = << >>

SpecStudents == InitStudents /\ [][NextStudents]_vars

(* ------------------------------ claims -------------------------------- *)

\* join rows stored for certificate id
JoinRows(id) == { pair \in certificate_achievements : pair[1] = id }

\* request p has finished a call of operation op
Finished(p, op) == proc[p].pc = "idle" /\ proc[p].op = op

\* C1: repository Create is all-or-nothing. After it returned nil the
\* certificate row and exactly N join rows (the requested ones) are stored;
\* after it returned an error, and while it is still running, neither the row
\* nor any join row of that certificate is stored; so a stored certificate row
\* always comes with all its N join rows.
C1_CreateAtomic ==
    /\ \A id \in DOMAIN repoCalls :
          LET achs == repoCalls[id].achievement_ids
          IN  IF repoCalls[id].returned = "nil"
              THEN /\ id \in DOMAIN certificates
                   /\ Cardinality(JoinRows(id)) = Len(achs)
                   /\ JoinRows(id) = { <<id, achs[i]>> : i \in 1..Len(achs) }
              ELSE /\ id \notin DOMAIN certificates
                   /\ JoinRows(id) = {}
    /\ \A id \in DOMAIN certificates :
          /\ id \in DOMAIN repoCalls
          /\ Cardinality(JoinRows(id)) = Len(repoCalls[id].achievement_ids)

\* C1 witness: one call stored a certificate with two join rows, another failed
\* on its second join insert after the certificate and first join were written
C1_Witness ==
    \E i, j \in DOMAIN repoCalls :
        /\ repoCalls[i].returned = "nil"
        /\ Len(repoCalls[i].achievement_ids) = 2
        /\ repoCalls[j].returned = "error"
        /\ repoCalls[j].achievement_ids = <<"a1", "a9">>
        /\ \E p \in Procs : /\ Finished(p, "create")
                            /\ proc[p].id = j
                            /\ proc[p].err = ErrForeignKey

\* C2: no two stored certificates have the same certificate number
C2_UniqueNumbers ==
    \A i, j \in DOMAIN certificates :
        i # j => certificates[i].certificate_number # certificates[j].certificate_number

\* C2 witness: two issuance calls overlapped and computed the same number; one
\* is stored, the other was refused by the uniqueness constraint
C2_Witness ==
    /\ overlapped
    /\ \E p \in Procs : \E i \in DOMAIN certificates :
          /\ Finished(p, "create")
          /\ proc[p].err = ErrUniqueNumber
          /\ proc[p].number = certificates[i].certificate_number
          /\ i # proc[p].id

\* C3 (as claimed): of two issuance calls that computed the same number, the one
\* that loses is retried and succeeds: when one has succeeded the other never
\* ends with the uniqueness error
C3_RaceLoserRetried ==
    \A p, q \in Procs :
        ( /\ p # q
          /\ Finished(p, "create") /\ Finished(q, "create")
          /\ proc[p].number # "" /\ proc[p].number = proc[q].number
          /\ proc[p].err = "" )
        => proc[q].err # ErrUniqueNumber

\* failures of issuance other than the number's uniqueness violation
OtherIssuanceFailures ==
    ValidationErrors \cup {"Validasi gagal", ErrForeignKey, ErrDBUnavailable}

\* C4 (as claimed): an issuance refused by the number's uniqueness constraint is
\* answered with a status that no validation failure, foreign-key failure or
\* database failure is answered with
C4_UniqueViolationDistinct ==
    \A p \in Procs :
        (Finished(p, "create") /\ proc[p].err = ErrUniqueNumber)
        => \A e \in OtherIssuanceFailures : proc[p].status # HandlerCreateStatus(e)

\* the number the k-th certificate of year y must carry
ExpectedNumber(y, k) ==
    "421.2/SKP/" \o ToString(y) \o "/"
        \o (IF k < 10 THEN "000" ELSE IF k < 100 THEN "00"
            ELSE IF k < 1000 THEN "0" ELSE "")
        \o ToString(k)

\* C5: when issuances never overlapped, each ran within one calendar year and
\* the store started empty, the k-th certificate issued in year Y carries
\* "421.2/SKP/Y/" followed by k padded with zeros to four digits
C5_SequentialNumbers ==
    (~overlapped /\ ~straddled /\ 0 \notin DOMAIN certificates)
    => \A id \in DOMAIN certificates :
          LET y == certificates[id].issued_at
              k == 1 + Cardinality({ j \in DOMAIN certificates :
                                        certificates[j].issued_at = y /\ j < id })
          IN  certificates[id].certificate_number = ExpectedNumber(y, k)

\* C5 witness: two issuances one after the other in 2024, from an empty store
C5_Witness ==
    /\ ~overlapped /\ ~straddled
    /\ DOMAIN certificates = {1, 2}
    /\ certificates[1].certificate_number = "421.2/SKP/2024/0001"
    /\ certificates[2].certificate_number = "421.2/SKP/2024/0002"

\* C6 (as claimed): a Revoke of a stored certificate that was neither refused as
\* already revoked nor hit by a database outage has succeeded, and the stored
\* status is revoked
C6_RevokeActiveSucceeds ==
    \A p \in Procs :
        ( /\ Finished(p, "revoke")
          /\ proc[p].id \in DOMAIN certificates
          /\ proc[p].err \notin {ErrAlreadyRevoked, ErrDBUnavailable} )
        => /\ proc[p].err = ""
           /\ certificates[proc[p].id].status = "revoked"

\* C7: revoked is terminal: a certificate stored as revoked is stored as revoked
\* after every step
C7_RevokedTerminal ==
    [][ \A id \in DOMAIN certificates :
            certificates[id].status = "revoked"
            => /\ id \in DOMAIN certificates'
               /\ certificates'[id].status = "revoked" ]_vars

\* C7 witness: beside a revoked certificate, an issuance has run and its PDF
\* task has written pdf_url, and a Revoke of the revoked certificate has returned
C7_Witness ==
    /\ 0 \in DOMAIN certificates /\ certificates[0].status = "revoked"
    /\ 1 \in DOMAIN certificates /\ certificates[1].pdf_url # ""
    /\ \E p \in Procs : Finished(p, "revoke") /\ proc[p].id = 0

\* request p makes, in this step, the FindByID and status check of Revoke(id)
RevokeChecked(p, id) ==
    /\ proc[p].pc = "idle"
    /\ proc'[p] # proc[p]
    /\ proc'[p].op = "revoke"
    /\ proc'[p].id = id
    /\ proc'[p].err # ErrDBUnavailable

\* C8: Revoke of an already revoked certificate returns the conflict error,
\* which is not the not-found error (nor answered with its status), and
\* Revoke of a well-formed id that is not stored returns ErrCertificateNotFound;
\* neither changes the stored tables
C8_RevokeRejections ==
    [][ \A p \in Procs : \A id \in NamedIDs \ {MalformedID} :
            RevokeChecked(p, id) =>
                /\ (id \in DOMAIN certificates /\ certificates[id].status = "revoked")
                   => /\ proc'[p].pc = "idle"
                      /\ proc'[p].err = ErrAlreadyRevoked
                      /\ proc'[p].err # ErrCertificateNotFound
                      /\ proc'[p].status # HandlerRevokeStatus(ErrCertificateNotFound)
                      /\ UNCHANGED << certificates, certificate_achievements >>
                /\ id \notin DOMAIN certificates
                   => /\ proc'[p].pc = "idle"
                      /\ proc'[p].err = ErrCertificateNotFound
                      /\ UNCHANGED << certificates, certificate_achievements >> ]_vars

\* C8 witness: one Revoke was refused as already revoked, another as not found
C8_Witness ==
    \E p, q \in Procs :
        /\ Finished(p, "revoke") /\ proc[p].err = ErrAlreadyRevoked
        /\ proc[p].id \in DOMAIN certificates
        /\ Finished(q, "revoke") /\ proc[q].err = ErrCertificateNotFound
        /\ proc[q].id = UnknownID

\* C9 (as claimed): of two Revoke calls on the same stored certificate, neither
\* hit by a database outage, at most one reports success and every call that
\* does not is rejected as already revoked
C9_AtMostOneRevokeSucceeds ==
    \A p, q \in Procs :
        ( /\ p # q
          /\ Finished(p, "revoke") /\ Finished(q, "revoke")
          /\ proc[p].id = proc[q].id /\ proc[p].id \in DOMAIN certificates
          /\ proc[p].err # ErrDBUnavailable /\ proc[q].err # ErrDBUnavailable )
        => /\ ~(proc[p].err = "" /\ proc[q].err = "")
           /\ proc[p].err \in {"", ErrAlreadyRevoked}
           /\ proc[q].err \in {"", ErrAlreadyRevoked}

\* C10: Verify of a token no stored certificate carries returns, without error,
\* is_valid = false with a message and no certificate, student or achievements
C10_VerifyUnknownToken ==
    \A p \in Procs :
        ( /\ Finished(p, "verify")
          /\ FindByQRToken(proc[p].token) = None
          /\ proc[p].err # ErrDBUnavailable )
        => /\ proc[p].err = ""
           /\ proc[p].resp.is_valid = FALSE
           /\ proc[p].resp.message # ""
           /\ proc[p].resp.certificate = None
           /\ proc[p].resp.student = None
           /\ proc[p].resp.achievements = << >>

\* C10 witness: a Verify of an unknown token has returned while certificates
\* with other tokens are stored
C10_Witness ==
    \E p \in Procs :
        /\ Finished(p, "verify")
        /\ proc[p].err = ""
        /\ FindByQRToken(proc[p].token) = None
        /\ DOMAIN certificates # {}

\* the stored certificates that carry token t
Carrying(t) == { id \in DOMAIN certificates : certificates[id].qr_token = t }

\* C11: Verify of the token of a revoked certificate returns, without error,
\* is_valid = false with that certificate in the answer and with neither a
\* student nor achievements (a failed database read aside)
C11_VerifyRevokedToken ==
    \A p \in Procs : \A id \in Carrying(proc[p].token) :
        ( /\ Finished(p, "verify")
          /\ certificates[id].status = "revoked"
          /\ proc[p].err # ErrDBUnavailable )
        => /\ proc[p].err = ""
           /\ proc[p].resp.is_valid = FALSE
           /\ proc[p].resp.certificate = Some(WithStudent(student_cols, certificates[id]))
           /\ proc[p].resp.student = None
           /\ proc[p].resp.achievements = << >>

\* C11 witness: a Verify of a revoked certificate's token has returned
C11_Witness ==
    \E p \in Procs : \E id \in Carrying(proc[p].token) :
        /\ Finished(p, "verify")
        /\ proc[p].err = ""
        /\ certificates[id].status = "revoked"
        /\ proc[p].resp.certificate = Some(WithStudent(student_cols, certificates[id]))

\* request p takes the step that ends the first read of a Verify call
VerifyReads(p) == proc[p].pc = "idle" /\ proc'[p].op = "verify" /\ proc'[p] # proc[p]

\* request p takes the step that returns the answer for an active certificate
VerifyAnswers(p) == proc[p].pc = "verify_detail" /\ proc'[p].pc = "idle"

\* C12: Verify of the token of an active certificate returns is_valid = true
\* with the certificate, the student and a non-empty achievement list, the
\* list holding exactly the achievements associated with the certificate in
\* non-increasing order of year (a failed database read aside)
C12_VerifyActiveToken ==
    [][\A p \in Procs :
          /\ ( /\ VerifyReads(p)
               /\ \E id \in Carrying(proc'[p].token) :
                     certificates[id].status = "active"
               /\ proc'[p].err # ErrDBUnavailable )
             => proc'[p].pc = "verify_detail"
          /\ ( /\ VerifyAnswers(p)
               /\ proc'[p].err # ErrDBUnavailable )
             => LET r == proc'[p].resp
                    n == Len(r.achievements)
                IN  /\ proc'[p].err = ""
                    /\ r.is_valid = TRUE
                    /\ r.certificate = proc[p].cert
                    /\ r.certificate # None
                    /\ r.student = Some(certificates[proc[p].id].student_id)
                    /\ n > 0
                    /\ { r.achievements[i] : i \in 1..n } =
                           JoinedAchievements(proc[p].id)
                    /\ n = Cardinality(JoinedAchievements(proc[p].id))
                    /\ \A i, j \in 1..n :
                          i < j => achievements[r.achievements[i]].year >=
                                   achievements[r.achievements[j]].year
      ]_vars

\* the background task of certificate id, if it has been started
TasksOf(id) == { t \in pdfTasks : t.id = id }

\* the background task of certificate id fails in this step
TaskFails(id) ==
    /\ \E t \in TasksOf(id) : t.stage # "failed"
    /\ \E u \in pdfTasks' : u.id = id /\ u.stage = "failed"

\* the background task of certificate id is started in this step
TaskStarts(id) ==
    /\ TasksOf(id) = {}
    /\ \E u \in pdfTasks' : u.id = id

\* C13: the background task starts only as the issuance call returns success
\* for a committed certificate, and a failure of rendering, upload or write-back
\* in it changes neither any call's outcome nor any stored certificate or join
\* row
C13_PdfFailureSwallowed ==
    [][\A id \in DOMAIN repoCalls :
          /\ TaskStarts(id)
             => /\ repoCalls[id].returned = "nil"
                /\ id \in DOMAIN certificates
                /\ \E p \in Procs : /\ proc[p].pc = "create_detail"
                                    /\ proc[p].id = id
                                    /\ proc'[p].pc = "idle"
                                    /\ proc'[p].op = "create"
                                    /\ proc'[p].err = ""
                                    /\ proc'[p].status = 201
          /\ TaskFails(id)
             => /\ proc' = proc
                /\ id \in DOMAIN certificates
                /\ certificates' = certificates
                /\ certificate_achievements' = certificate_achievements
      ]_vars

\* C13 witness: a certificate's background task has failed, the certificate
\* and its join row are stored and the issuance call reported success
C13_Witness ==
    \E id \in DOMAIN certificates : \E p \in Procs :
        /\ \E t \in TasksOf(id) : t.stage = "failed"
        /\ JoinRows(id) # {}
        /\ Finished(p, "create")
        /\ proc[p].id = id
        /\ proc[p].err = ""

\* C14: every certificate-achievement association links an achievement of the
\* certificate's own student, and an issuance naming another student's
\* achievement fails and stores nothing
C14_OwnAchievementsOnly ==
    /\ \A pair \in certificate_achievements :
          /\ pair[1] \in DOMAIN certificates
          /\ pair[2] \in DOMAIN achievements
          /\ achievements[pair[2]].student_id = certificates[pair[1]].student_id
    /\ \A id \in DOMAIN repoCalls \cap DOMAIN certificates :
          \A i \in 1..Len(repoCalls[id].achievement_ids) :
             LET ach == repoCalls[id].achievement_ids[i]
             IN  ach \in DOMAIN achievements
                 => achievements[ach].student_id = certificates[id].student_id

\* C15: every stored certificate has at least one association row: no
\* repository Create is called with an empty achievement list, and no
\* operation leaves a stored certificate without association rows
C15_AtLeastOneAchievement ==
    /\ \A id \in DOMAIN repoCalls : Len(repoCalls[id].achievement_ids) > 0
    /\ \A id \in DOMAIN certificates : JoinRows(id) # {}

\* request p takes the step that executes the DELETE of a student
StudentDeleteRuns(p) == proc[p].pc = "student_delete" /\ proc'[p].pc = "idle"

\* C16: the set of stored certificate ids never shrinks, and deleting a student
\* whom a stored certificate references fails and removes nothing
C16_CertificatesNeverDeleted ==
    [][/\ DOMAIN certificates \subseteq DOMAIN certificates'
       /\ \A p \in Procs :
             ( /\ StudentDeleteRuns(p)
               /\ \E id \in DOMAIN certificates :
                     certificates[id].student_id = proc[p].key )
             => /\ proc'[p].err # ""
                /\ proc'[p].status # 200
                /\ students' = students
                /\ achievements' = achievements
                /\ certificates' = certificates
                /\ certificate_achievements' = certificate_achievements
      ]_vars

\* C16 witness: the deletion of a student who owns a stored certificate has
\* been refused by the foreign key, and the deletion of another student went
\* through
C16_Witness ==
    \E p, q \in Procs :
        /\ Finished(p, "student_delete")
        /\ proc[p].err = ErrForeignKey
        /\ proc[p].key \in students
        /\ \E id \in DOMAIN certificates : certificates[id].student_id = proc[p].key
        /\ Finished(q, "student_delete")
        /\ proc[q].err = ""
        /\ proc[q].key \notin students

\* the fields of a certificate row that no operation may rewrite
Immutable(row) ==
    [id |-> row.id, student_id |-> row.student_id,
     certificate_number |-> row.certificate_number, issued_at |-> row.issued_at,
     valid_until |-> row.valid_until, qr_token |-> row.qr_token]

\* C17: once a certificate is stored, a step changes of it at most status or
\* pdf_url, never both, and never its number, token, student or the set of its
\* associated achievements
C17_OnlyStatusAndPdfUrlChange ==
    [][\A id \in DOMAIN certificates :
          /\ id \in DOMAIN certificates'
          /\ Immutable(certificates'[id]) = Immutable(certificates[id])
          /\ \/ certificates'[id].status = certificates[id].status
             \/ certificates'[id].pdf_url = certificates[id].pdf_url
          /\ { pair \in certificate_achievements' : pair[1] = id } = JoinRows(id)
      ]_vars

\* C18: no two stored certificates carry the same verification token, so a
\* token resolves to at most one certificate; an issuance refused for its
\* token leaves neither a certificate row nor join rows
C18_UniqueTokens ==
    /\ \A i, j \in DOMAIN certificates :
          i # j => certificates[i].qr_token # certificates[j].qr_token
    /\ \A t \in Tokens : Cardinality(FindByQRToken(t)) <= 1
    /\ \A p \in Procs :
          (Finished(p, "create") /\ proc[p].err = ErrUniqueToken)
          => /\ proc[p].id \notin DOMAIN certificates
             /\ JoinRows(proc[p].id) = {}

\* C18 witness: an issuance that drew the token of a stored certificate was
\* refused, and two certificates with different tokens are stored
C18_Witness ==
    /\ \E p \in Procs : /\ Finished(p, "create")
                        /\ proc[p].err = ErrUniqueToken
                        /\ proc[p].id \notin DOMAIN certificates
    /\ Cardinality(DOMAIN certificates) >= 2

\* errors of the expected kinds NotFound and Conflict, and upstream failures
ExpectedErrors == {ErrCertificateNotFound, ErrStudentNotFound, ErrAlreadyRevoked}
UpstreamErrors == {ErrDBUnavailable}

\* C19: at the revoke and issue endpoints a NotFound or Conflict outcome is
\* answered with a status different from that of an upstream failure
C19_ExpectedDistinctFromUpstream ==
    \A p, q \in Procs :
        ( /\ proc[p].op \in {"revoke", "create"}
          /\ Finished(p, proc[p].op)
          /\ Finished(q, proc[p].op)
          /\ proc[p].err \in ExpectedErrors
          /\ proc[q].err \in UpstreamErrors )
        => proc[p].status # proc[q].status

\* C20: pdf_url is null when a certificate becomes stored; it changes only in
\* the write-back step of that certificate's own background task, which is
\* reached only through a successful render and then a successful upload; once
\* the task has failed pdf_url is null and stays null
C20_PdfUrlOnlyByTask ==
    [][/\ \A id \in DOMAIN certificates' \ DOMAIN certificates :
             certificates'[id].pdf_url = ""
       /\ \A id \in DOMAIN certificates' \cap DOMAIN certificates :
             certificates'[id].pdf_url # certificates[id].pdf_url
             => \E t \in TasksOf(id) :
                   /\ t.stage = "writeback"
                   /\ certificates[id].pdf_url = ""
                   /\ certificates'[id].pdf_url = t.url
                   /\ t.url # ""
                   /\ pdfTasks' = TaskStep(t, [t EXCEPT !.stage = "done"])
       /\ \A u \in pdfTasks' \ pdfTasks :
             /\ u.stage = "writeback"
                => \E t \in TasksOf(u.id) : t.stage = "upload"
             /\ u.stage = "upload"
                => \E t \in TasksOf(u.id) : t.stage = "render"
             /\ u.stage = "render" => TasksOf(u.id) = {}
             /\ u.stage = "failed"
                => /\ u.id \in DOMAIN certificates'
                   /\ certificates'[u.id].pdf_url = ""
       /\ \A t \in pdfTasks :
             t.stage \in {"failed", "done"} => t \in pdfTasks'
      ]_vars

\* C20 witness: a background task has written its URL back
C20_Witness ==
    \E id \in DOMAIN certificates :
        /\ certificates[id].pdf_url # ""
        /\ \E t \in TasksOf(id) : t.stage = "done" /\ t.url = certificates[id].pdf_url

\* request p takes the step that serves a download
Downloads(p) == proc[p].pc = "idle" /\ proc'[p].op = "download" /\ proc'[p] # proc[p]

\* C21: a DownloadPDF call, successful or not, changes no stored row and no
\* storage object and no other call's outcome; a rendering failure is answered
\* to its caller as an error, and an id that is not stored as
\* ErrCertificateNotFound
C21_DownloadChangesNothing ==
    [][\A p \in Procs :
          Downloads(p)
          => /\ certificates' = certificates
             /\ certificate_achievements' = certificate_achievements
             /\ students' = students
             /\ student_cols' = student_cols
             /\ achievements' = achievements
             /\ objects' = objects
             /\ pdfTasks' = pdfTasks
             /\ \A q \in Procs \ {p} : proc'[q] = proc[q]
             /\ proc'[p].err = ErrRender => proc'[p].status = 500
             /\ ( /\ proc'[p].id \notin DOMAIN certificates
                  /\ proc'[p].id # MalformedID
                  /\ proc'[p].err # ErrDBUnavailable )
                => /\ proc'[p].err = ErrCertificateNotFound
                   /\ proc'[p].status = 404
      ]_vars

\* C21 witness: one download of a certificate without a stored pdf_url has
\* succeeded and another has failed in rendering
C21_Witness ==
    \E p, q \in Procs :
        /\ Finished(p, "download")
        /\ proc[p].err = ""
        /\ proc[p].id \in DOMAIN certificates
        /\ certificates[proc[p].id].pdf_url = ""
        /\ Finished(q, "download")
        /\ proc[q].err = ErrRender
        /\ objects = {}

\* handlers of the certificate list, detail, issue, download and revoke routes
ProtectedCertificateHandlers ==
    {"certificateHandler.GetAll", "certificateHandler.Create",
     "certificateHandler.GetByID", "certificateHandler.Download",
     "certificateHandler.Revoke"}

\* the request served carried a well-formed Bearer header with a token that
\* utils.ValidateToken accepts
ValidBearer(header) ==
    /\ header.parts = 2
    /\ header.scheme \in {"Bearer", "bearer"}
    /\ header.token.kind \in {"access", "refresh"}

\* C22: the verify route is served without the Authenticate middleware, so
\* whatever header the request carries reaches the handler; each certificate
\* list, detail, issue, download and revoke route passes through Authenticate,
\* so its handler is reached only with a valid bearer token and answers 401
\* otherwise; and every one of those routes is registered
C22_VerifyPublicRestAuthenticated ==
    /\ \A h \in ProtectedCertificateHandlers \cup {"certificateHandler.Verify"} :
          \E route \in Setup : route.handler = h
    /\ (call.fn = "ServeHTTP" /\ call.done)
       => LET route == call.in.route
              header == call.in.header
          IN  /\ route.handler = "certificateHandler.Verify"
                 => /\ ~call.out.authenticated
                    /\ call.out.handler = "certificateHandler.Verify"
              /\ route.handler \in ProtectedCertificateHandlers
                 => /\ call.out.authenticated
                    /\ call.out.handler = route.handler <=> ValidBearer(header)
                    /\ ~ValidBearer(header) => call.out.status = 401

\* C22 witness: the verify route has served a request without any header
C22_Witness ==
    /\ call.fn = "ServeHTTP"
    /\ call.done
    /\ call.in.route.handler = "certificateHandler.Verify"
    /\ call.in.header = NoHeader
    /\ call.out.handler = "certificateHandler.Verify"

\* C23: when the QR image cannot be generated and nothing else fails, buildPDF
\* returns without error a document that has all its rows and no QR block;
\* with the image it has the QR block; buildPDF fails only when writing the
\* document fails
C23_QrFailureOmitsBlock ==
    (call.fn = "buildPDF" /\ call.done)
    => /\ call.out.err = "" <=> ~call.in.outputFails
       /\ call.out.err = ""
          => /\ call.out.qr_block = ~call.in.qrFails
             /\ call.out.rows = call.in.detail.rows
             /\ call.out.number = call.in.detail.number

\* C23 witness: a render whose QR image failed has returned a document
C23_Witness ==
    /\ call.fn = "buildPDF"
    /\ call.done
    /\ call.in.qrFails
    /\ call.out.err = ""
    /\ ~call.out.qr_block
    /\ call.out.rows = 2

\* C24: truncate(s, max) returns s unchanged when s has at most max characters
\* and otherwise its first max-3 characters followed by "...", so the result
\* has at most max characters
C24_TruncateByCharacters ==
    (call.fn = "truncate" /\ call.done)
    => LET str == call.in.s
           max == call.in.max
       IN  /\ Len(str) <= max => call.out = Bytes(str)
           /\ Len(str) > max
              => call.out = Bytes(SubSeq(str, 1, max - 3)) \o Ellipsis
           /\ Len(call.out) <= max

\* C25: no two stored students share a NISN, also when two Create calls with
\* the same NISN both pass FindByNISN before either inserts; and a Create called
\* for a NISN that is stored returns at once, with the NISN-conflict error
\* unless the lookup itself failed, and leaves the stored students as they were
C25_UniqueNISN ==
    [][ /\ \A s1, s2 \in students' :
              student_cols'[s1].nisn = student_cols'[s2].nisn => s1 = s2
        /\ \A p \in Procs :
              ( /\ proc[p].pc = "idle"
                /\ proc'[p] # proc[p]
                /\ proc'[p].op = "student_create"
                /\ FindByNISN(proc'[p].key) # {} )
              => /\ proc'[p].pc = "idle"
                 /\ proc'[p].err \in {ErrNISNAlreadyExist, ErrDBUnavailable}
                 /\ proc'[p].status \in {400, 500}
                 /\ proc'[p].err = ErrNISNAlreadyExist <=> proc'[p].status = 400
                 /\ students' = students
                 /\ student_cols' = student_cols ]_vars

\* C25 witness: two Create calls for the same new NISN both passed the lookup;
\* one has stored the student and the other was refused by the unique key
C25_Witness ==
    \E p, q \in Procs :
       /\ p # q
       /\ proc[p].pc = "idle" /\ proc[p].op = "student_create"
       /\ proc[q].pc = "idle" /\ proc[q].op = "student_create"
       /\ proc[p].key = "n3" /\ proc[q].key = "n3"
       /\ proc[p].err = ""
       /\ proc[q].err = ErrUniqueNISN
       /\ Cardinality(FindByNISN("n3")) = 1

\* the requests p that are inside UploadPhoto for student sid
Uploading(sid) ==
    { p \in Procs : proc[p].pc \in {"photo_delete", "photo_upload", "photo_update"}
                    /\ proc[p].key = sid }

\* C30: when no UploadPhoto call is under way for a student, the student's
\* photo_url is null or names an object that exists in object storage
C30_PhotoUrlNeverDangling ==
    \A sid \in students :
       Uploading(sid) = {}
       => \/ student_cols[sid].photo_url = ""
          \/ student_cols[sid].photo_url \in objects

\* C26: whenever no issuance is in flight, the number the next issuance would
\* compute (the count of the stored certificates issued in the current year,
\* plus 1, under the current year) is the number of no stored certificate
C26_NextNumberFree ==
    (\A p \in Procs : ~InCreate(p))
    => \A id \in DOMAIN certificates :
          certificates[id].certificate_number
             # GenerateCertificateNumber(clock, CountByYear(clock) + 1)

\* C27: when service Create has returned an error, no certificate row and no
\* join row of that call is stored
C27_ErrorMeansNothingStored ==
    \A p \in Procs :
       (Finished(p, "create") /\ proc[p].err # "" /\ proc[p].id \in DOMAIN repoCalls)
       => /\ proc[p].id \notin DOMAIN certificates
          /\ JoinRows(proc[p].id) = {}

\* the rows a student could have instead: another name, another NISN
OtherStudentRows ==
    { StudentRow(nisn, name) : nisn \in {"n1", "n7"}, name \in {"Ani", "Dewi"} }

\* C28: the answer of Verify for a revoked certificate is the same whatever
\* the name and the NISN of the owning student are, and it holds no
\* achievements: the answer computed on a store that differs only in the
\* student's row is the answer given
C28_RevokedDisclosesNoStudentData ==
    \A p \in Procs : \A id \in Carrying(proc[p].token) :
        ( /\ Finished(p, "verify")
          /\ proc[p].err = ""
          /\ certificates[id].status = "revoked" )
        => /\ proc[p].resp.achievements = << >>
           /\ \A row \in OtherStudentRows :
                 \A c \in FindByQRTokenIn(certificates,
                                          [student_cols EXCEPT
                                              ![certificates[id].student_id] = row],
                                          proc[p].token) :
                    VerifyRevoked(c) = proc[p].resp

\* C29: the outcome of Verify follows from whether the token is known and from
\* the stored status alone: an unknown token and a revoked certificate are
\* answered is_valid = false at the first read, and an active certificate is
\* answered is_valid = true whatever its valid_until, a date in the past
\* included (a failed database read aside)
C29_VerifyIgnoresValidUntil ==
    [][\A p \in Procs :
          /\ ( VerifyReads(p) /\ proc'[p].err # ErrDBUnavailable )
             => LET found == FindByQRToken(proc'[p].token)
                IN  IF found # None /\ \A c \in found : c.status = "active"
                    THEN proc'[p].pc = "verify_detail"
                    ELSE /\ proc'[p].pc = "idle"
                         /\ proc'[p].resp.is_valid = FALSE
          /\ ( VerifyAnswers(p) /\ proc'[p].err # ErrDBUnavailable )
             => /\ proc'[p].err = ""
                /\ proc'[p].status = 200
                /\ proc'[p].resp.is_valid = TRUE
      ]_vars

\* C29 witness: a certificate whose valid_until lies years before the clock
\* has been verified and answered is_valid = true
C29_Witness ==
    \E p \in Procs : \E id \in Carrying(proc[p].token) :
        /\ Finished(p, "verify")
        /\ proc[p].err = ""
        /\ certificates[id].status = "active"
        /\ certificates[id].valid_until = "2020-12-31"
        /\ clock >= 2024
        /\ proc[p].resp.is_valid = TRUE

====
